---- MODULE Spec2Model ----
(***************************************************************************)
(* State-machine model of the call / presence backend (backend/app).       *)
(*                                                                         *)
(* Every HTTP handler of api/calls.py and api/users.py is an `async def`   *)
(* whose database work is synchronous: between its first statement and    *)
(* its first `await` nothing else runs on the event loop, so each handler  *)
(* is one atomic action.  The database tables are the variables            *)
(* user_connections, calls, call_participants and user_presence; the       *)
(* in-memory registry PresenceManager.active_connections is the variable   *)
(* active_connections.  The /ws/call handlers keep their locals in          *)
(* call_sockets, ConnectionManager.active_connections is call_connections  *)
(* and the transcripts table is transcripts.  lastOp is the request just   *)
(* served together with its response and the messages it put on            *)
(* websockets.                                                             *)
(***************************************************************************)
EXTENDS Integers, Sequences, FiniteSets, TLC

\* ---------------------------------------------------------------- bounds
NUsers == 3
MaxCalls == 1
MaxTime == 1
PresenceSockets == 2
NotifySockets == 1
MultiSocketUsers == 1
MaxCallSockets == 2
TranscribingSockets == 1
MaxFragments == 3
MaxAudio == 3

\* ------------------------------------------------------- program constants
HTTP_200_OK == 200
HTTP_400_BAD_REQUEST == 400
HTTP_403_FORBIDDEN == 403
HTTP_404_NOT_FOUND == 404
HTTP_500_INTERNAL_SERVER_ERROR == 500
WS_1008_POLICY_VIOLATION == 1008

INITIATED == "initiated"
\* The status answer_call writes, were it the one the call already has.
PICKED_UP_AsInitiated == "initiated"
PICKED_UP == "picked_up"
ENDED == "ended"

\* A nullable integer column holding NULL (ended_at, duration_seconds).
Null == -1

\* InitiateCallRequest.room_name: Optional[str]; None is the missing field.
None == "None"
\* f"call-{uuid.uuid4().hex[:8]}"
GeneratedRoom == "call-uuid4"
RoomNames == {None, "roomA"}

Users == 1..NUsers
CallIds == 1..MaxCalls
Sockets == 1..PresenceSockets
CallSockets == 1..MaxCallSockets

\* Ids that no row of users / calls carries.
UnknownUser == NUsers + 1
UnknownCall == MaxCalls + 1

VARIABLES
  user_connections,    \* rows (user_id, connected_user_id) of user_connections
  calls,               \* rows of calls; a call's id is its index
  call_participants,   \* rows (call_id, user_id, role), in insertion order
  user_presence,       \* per user: "norow", "online" or "offline" (is_online)
  active_connections,  \* PresenceManager.active_connections: user -> socket, 0 if absent
  sockets,             \* per user and presence websocket: "none", "open", "dead", "silent"
  now,                 \* the clock
  call_connections,    \* ConnectionManager.active_connections: call -> socket, 0 if absent
  call_sockets,        \* per /ws/call websocket: its handler's locals
  transcripts,         \* rows of transcripts, by call_id
  transcriber_sessions, \* per /ws/call websocket: transcribers connected, not closed
  lastOp               \* the request served last, with its response

vars == <<user_connections, calls, call_participants, user_presence,
          active_connections, sockets, now, call_connections, call_sockets,
          transcripts, transcriber_sessions, lastOp>>

\* What the /ws/call handlers write.
callVars == <<call_connections, call_sockets, transcripts,
              transcriber_sessions>>

\* --------------------------------------------------------------- responses
\* The response of a handler: what the client gets back plus what the
\* handler put on websockets while it ran.
\*   code    HTTP status (HTTPException.status_code, 200 on return)
\*   ret     the response body's payload, as a record or Null-filled
\*   sent    messages delivered on presence websockets, in order
\*   bcast   manager.broadcast invocations, in order
Response(op, user, call, target, code, ret, sent, bcast) ==
  [op |-> op, user |-> user, call |-> call, target |-> target,
   code |-> code, ret |-> ret, sent |-> sent, bcast |-> bcast]

NoRet == [call_id |-> 0, room_name |-> None, duration_seconds |-> Null,
          message |-> None]


\* ------------------------------------------------------------ table queries
\* db.query(CallParticipant).filter(call_id == c, user_id == u).first()
ParticipantRows(c, u) ==
  {i \in 1..Len(call_participants) :
     call_participants[i].call_id = c /\ call_participants[i].user_id = u}

IsParticipant(c, u) == ParticipantRows(c, u) # {}

\* The users with at least one participant row of call c.
ParticipantsOf(c) ==
  {call_participants[i].user_id :
     i \in {j \in 1..Len(call_participants) : call_participants[j].call_id = c}}

CallExists(c) == c \in 1..Len(calls)

\* The target-user lookup of invite_to_call finding a row for every id.
UserExists_AnyId(u) == u \in Users \cup {UnknownUser}

UserExists(u) == u \in Users

\* The filter of initiate_call with each orientation's & written as |.
InitiateConnectionQuery_OrFilter(caller_id, callee_id) ==
  \E row \in user_connections :
    \/ (row[1] = caller_id \/ row[2] = callee_id)
    \/ (row[1] = callee_id \/ row[2] = caller_id)

\* initiate_call's filter: a row in either orientation.

InitiateConnectionQuery(caller_id, callee_id) ==
  \E row \in user_connections :
    \/ (row[1] = caller_id /\ row[2] = callee_id)
    \/ (row[1] = callee_id /\ row[2] = caller_id)

\* invite_to_call's filter: only the row stored as (inviter, target).
InviteConnectionQuery(current_user_id, user_id) ==
  \E row \in user_connections : row[1] = current_user_id /\ row[2] = user_id

\* The filter of add_connection and remove_connection matching only the row
\* stored as (user, target).
ExistingConnectionRows_OneOrientation(user_id, target_id) ==
  {row \in user_connections : row[1] = user_id /\ row[2] = target_id}

\* add_connection's and remove_connection's filter: either orientation.
ExistingConnectionRows(user_id, target_id) ==
  {row \in user_connections :
     \/ (row[1] = user_id /\ row[2] = target_id)
     \/ (row[1] = target_id /\ row[2] = user_id)}

\* request.room_name or f"call-{uuid.uuid4().hex[:8]}": None and "" are falsy.
RoomNameOrGenerated(room_name) ==
  IF room_name = None \/ room_name = "" THEN GeneratedRoom ELSE room_name

\* --------------------------------------------------------------- messages
IncomingCall(call_id, caller_id, room_name) ==
  [type |-> "incoming_call", call_id |-> call_id, caller_id |-> caller_id,
   room_name |-> room_name]

NewConnection(user_id) == [type |-> "new_connection", user |-> user_id]

PresenceUpdate(user_id, is_online) ==
  [type |-> "presence_update", user_id |-> user_id, is_online |-> is_online]

CallAnswered(call_id) == [type |-> "call_answered", call_id |-> call_id]

\* One message put on presence websocket `socket` of user `to`.
Delivery(to, socket, msg) == [to |-> to, socket |-> socket, msg |-> msg]

\* ------------------------------------------------- presence registry sends
\* websocket.send_json succeeds on an open socket and raises on one whose
\* peer is gone.
Registered(u) == u \in Users /\ active_connections[u] # 0

SendSucceeds(u) ==
  Registered(u) /\ sockets[u][active_connections[u]] = "open"

\* PresenceManager.send_personal_message(user_id, message): best-effort
\* delivery to the registered socket; a failed send removes the stale entry
\* and is not raised.  SentPersonal is what reaches websockets,
\* AfterSendPersonal the registry afterwards.
SentPersonal(user_id, message) ==
  IF SendSucceeds(user_id)
  THEN <<Delivery(user_id, active_connections[user_id], message)>>
  ELSE <<>>

AfterSendPersonal(user_id) ==
  IF Registered(user_id) /\ ~SendSucceeds(user_id)
  THEN [active_connections EXCEPT ![user_id] = 0]
  ELSE active_connections

\* ConnectionManager.broadcast(call_id, message), as invoked by answer_call.
Broadcast(call_id, message) == <<[call_id |-> call_id, msg |-> message]>>


\* --------------------------------------------------- /ws/call handler state
\* The locals of one websocket_endpoint invocation: the authenticated user,
\* call_id, transcriber (None or a connected RealtimeTranscriber) and
\* transcript_buffer; `received` is the history of the fragments the
\* transcriber has handed to its on_data callback, `heard` the history of the
\* audio messages read (each with whether there was a transcriber then) and
\* `streamed` the history of the chunks passed to transcriber.stream.
NoCallSocket ==
  [state |-> "none", user |-> 0, call_id |-> 0, transcriber |-> None,
   transcript_buffer |-> <<>>, received |-> <<>>, heard |-> <<>>,
   streamed |-> <<>>]

\* No row of transcripts for a call / a row with the given content.
NoTranscript == [exists |-> FALSE, content |-> ""]
Transcript(content) == [exists |-> TRUE, content |-> content]

\* ------------------------------------------------------------------- Init
\* Empty tables (the users table holds Users throughout), an empty registry,
\* no websocket open.
Init ==
  /\ user_connections = {}
  /\ calls = <<>>
  /\ call_participants = <<>>
  /\ user_presence = [u \in Users |-> "norow"]
  /\ active_connections = [u \in Users |-> 0]
  /\ sockets = [u \in Users |-> [k \in Sockets |-> "none"]]
  /\ now = 0
  /\ call_connections = [c \in CallIds |-> 0]
  /\ call_sockets = [k \in CallSockets |-> NoCallSocket]
  /\ transcripts = [c \in CallIds |-> NoTranscript]
  /\ transcriber_sessions = [k \in CallSockets |-> 0]
  /\ lastOp = Response("start", 0, 0, 0, 0, NoRet, <<>>, <<>>)

\* ----------------------------------------------------- api/users.py handlers
\* POST /users/me/connections
add_connection(user_id, target_id) ==
  /\ UNCHANGED callVars
  /\ UNCHANGED <<calls, call_participants, user_presence, sockets, now>>
  /\ IF ~UserExists(target_id)
     THEN /\ UNCHANGED <<user_connections, active_connections>>
          /\ lastOp' = Response("add_connection", user_id, 0, target_id,
                                HTTP_404_NOT_FOUND, NoRet, <<>>, <<>>)
     ELSE IF target_id = user_id \/ ExistingConnectionRows(user_id, target_id) # {}
     THEN /\ UNCHANGED <<user_connections, active_connections>>
          /\ lastOp' = Response("add_connection", user_id, 0, target_id,
                                HTTP_400_BAD_REQUEST, NoRet, <<>>, <<>>)
     ELSE /\ user_connections' = user_connections \cup {<<user_id, target_id>>}
          /\ active_connections' = AfterSendPersonal(target_id)
          /\ lastOp' = Response("add_connection", user_id, 0, target_id,
                                HTTP_200_OK, NoRet,
                                SentPersonal(target_id, NewConnection(user_id)),
                                <<>>)

\* DELETE /users/me/connections/{connected_user_id}
remove_connection(user_id, connected_user_id) ==
  /\ UNCHANGED callVars
  /\ UNCHANGED <<calls, call_participants, user_presence, sockets, now,
                 active_connections>>
  /\ IF ExistingConnectionRows(user_id, connected_user_id) = {}
     THEN /\ UNCHANGED user_connections
          /\ lastOp' = Response("remove_connection", user_id, 0,
                                connected_user_id, HTTP_404_NOT_FOUND, NoRet,
                                <<>>, <<>>)
     ELSE /\ \E connection \in ExistingConnectionRows(user_id, connected_user_id) :
               user_connections' = user_connections \ {connection}
          /\ lastOp' = Response("remove_connection", user_id, 0,
                                connected_user_id, HTTP_200_OK, NoRet, <<>>, <<>>)

\* ----------------------------------------------------- api/calls.py handlers
\* Call(user_id=caller_id, caller_id, callee_id, room_id, status=INITIATED);
\* started_at is the server default now(), ended_at and duration_seconds NULL.
NewCall(caller_id, callee_id, room_name) ==
  [user_id |-> caller_id, caller_id |-> caller_id, callee_id |-> callee_id,
   room_id |-> room_name, status |-> INITIATED, started_at |-> now,
   ended_at |-> Null, duration_seconds |-> Null]

CallParticipant(call_id, user_id, role) ==
  [call_id |-> call_id, user_id |-> user_id, role |-> role]

\* The rows of initiate_call with the callee's row given the caller's role.
InitialParticipants_CalleeHost(call_id, caller_id, callee_id) ==
  <<CallParticipant(call_id, caller_id, "host"),
    CallParticipant(call_id, callee_id, "host")>>

\* The two rows initiate_call adds for a new call.
InitialParticipants(call_id, caller_id, callee_id) ==
  <<CallParticipant(call_id, caller_id, "host"),
    CallParticipant(call_id, callee_id, "participant")>>

\* The notice of initiate_call addressed to the caller instead of the callee.
InitiateNotice_ToCaller(call_id, caller_id, callee_id, room_name) ==
  [to |-> caller_id, msg |-> IncomingCall(call_id, caller_id, room_name)]

\* The user initiate_call notifies and the message it sends.
InitiateNotice(call_id, caller_id, callee_id, room_name) ==
  [to |-> callee_id, msg |-> IncomingCall(call_id, caller_id, room_name)]

\* The connection lookup of a handler taking an unavailable store for a row
\* found.
ConnectionLookup_GrantWhenUnavailable(store_available, found) ==
  IF ~store_available \/ found THEN "found" ELSE "missing"

\* db.query(UserConnection).filter(...).first(): the query raises when the
\* store is unavailable, and returns a row or None otherwise.
ConnectionLookup(store_available, found) ==
  IF ~store_available THEN "raised"
  ELSE IF found THEN "found" ELSE "missing"

\* POST /calls/initiate, with the store available or not when the handler
\* looks the connection up.  The exception of a failed query is not caught:
\* the request is answered 500.
initiate_call_with_store(caller_id, callee_id, requested_room, store_available) ==
  /\ UNCHANGED callVars
  /\ UNCHANGED <<user_connections, user_presence, sockets, now>>
  /\ IF ConnectionLookup(store_available,
                         InitiateConnectionQuery(caller_id, callee_id)) = "raised"
     THEN /\ UNCHANGED <<calls, call_participants, active_connections>>
          /\ lastOp' = Response("initiate", caller_id, 0, callee_id,
                                HTTP_500_INTERNAL_SERVER_ERROR, NoRet, <<>>, <<>>)
     ELSE IF ConnectionLookup(store_available,
                         InitiateConnectionQuery(caller_id, callee_id)) = "missing"
     THEN /\ UNCHANGED <<calls, call_participants, active_connections>>
          /\ lastOp' = Response("initiate", caller_id, 0, callee_id,
                                HTTP_403_FORBIDDEN, NoRet, <<>>, <<>>)
     ELSE /\ Len(calls) < MaxCalls
          /\ LET room_name == RoomNameOrGenerated(requested_room)
                 id == Len(calls) + 1
                 notice == InitiateNotice(id, caller_id, callee_id, room_name)
             IN /\ calls' = Append(calls, NewCall(caller_id, callee_id, room_name))
                /\ call_participants' =
                     call_participants \o InitialParticipants(id, caller_id, callee_id)
                /\ active_connections' = AfterSendPersonal(notice.to)
                /\ lastOp' = Response("initiate", caller_id, id, callee_id,
                                HTTP_200_OK,
                                [NoRet EXCEPT !.call_id = id, !.room_name = room_name],
                                SentPersonal(notice.to, notice.msg), <<>>)

\* POST /calls/initiate with the store available.
initiate_call(caller_id, callee_id, requested_room) ==
  initiate_call_with_store(caller_id, callee_id, requested_room, TRUE)

\* The "already in call" test of invite_to_call looking only for a host row.
ExistingParticipantQuery_HostOnly(call_id, user_id) ==
  \E i \in ParticipantRows(call_id, user_id) : call_participants[i].role = "host"

\* invite_to_call's "already in call" test.
ExistingParticipantQuery(call_id, user_id) == IsParticipant(call_id, user_id)

\* POST /calls/{call_id}/invite, with the store available or not when the
\* handler looks the connection up.
invite_to_call_with_store(current_user_id, call_id, user_id, store_available) ==
  /\ UNCHANGED callVars
  /\ UNCHANGED <<user_connections, calls, user_presence, sockets, now>>
  /\ IF ~CallExists(call_id)
     THEN /\ UNCHANGED <<call_participants, active_connections>>
          /\ lastOp' = Response("invite", current_user_id, call_id, user_id,
                                HTTP_404_NOT_FOUND, NoRet, <<>>, <<>>)
     ELSE IF ~IsParticipant(call_id, current_user_id)
     THEN /\ UNCHANGED <<call_participants, active_connections>>
          /\ lastOp' = Response("invite", current_user_id, call_id, user_id,
                                HTTP_403_FORBIDDEN, NoRet, <<>>, <<>>)
     ELSE IF ~UserExists(user_id)
     THEN /\ UNCHANGED <<call_participants, active_connections>>
          /\ lastOp' = Response("invite", current_user_id, call_id, user_id,
                                HTTP_404_NOT_FOUND, NoRet, <<>>, <<>>)
     ELSE IF ConnectionLookup(store_available,
                InviteConnectionQuery(current_user_id, user_id)) = "raised"
     THEN /\ UNCHANGED <<call_participants, active_connections>>
          /\ lastOp' = Response("invite", current_user_id, call_id, user_id,
                                HTTP_500_INTERNAL_SERVER_ERROR, NoRet, <<>>, <<>>)
     ELSE IF ConnectionLookup(store_available,
                InviteConnectionQuery(current_user_id, user_id)) = "missing"
     THEN /\ UNCHANGED <<call_participants, active_connections>>
          /\ lastOp' = Response("invite", current_user_id, call_id, user_id,
                                HTTP_400_BAD_REQUEST, NoRet, <<>>, <<>>)
     ELSE IF ExistingParticipantQuery(call_id, user_id)
     THEN /\ UNCHANGED <<call_participants, active_connections>>
          /\ lastOp' = Response("invite", current_user_id, call_id, user_id,
                                HTTP_200_OK,
                                [NoRet EXCEPT !.message = "User is already in the call"],
                                <<>>, <<>>)
     ELSE LET msg == IncomingCall(call_id, current_user_id, calls[call_id].room_id)
          IN /\ call_participants' =
                  Append(call_participants,
                         CallParticipant(call_id, user_id, "participant"))
             /\ active_connections' = AfterSendPersonal(user_id)
             /\ lastOp' = Response("invite", current_user_id, call_id, user_id,
                                HTTP_200_OK,
                                [NoRet EXCEPT !.message = "Invitation sent",
                                              !.call_id = call_id],
                                SentPersonal(user_id, msg), <<>>)

\* POST /calls/{call_id}/invite with the store available.
invite_to_call(current_user_id, call_id, user_id) ==
  invite_to_call_with_store(current_user_id, call_id, user_id, TRUE)

\* POST /calls/{call_id}/answer
answer_call(current_user_id, call_id) ==
  /\ UNCHANGED callVars
  /\ UNCHANGED <<user_connections, call_participants, user_presence,
                 active_connections, sockets, now>>
  /\ IF ~CallExists(call_id)
     THEN /\ UNCHANGED calls
          /\ lastOp' = Response("answer", current_user_id, call_id, 0,
                                HTTP_404_NOT_FOUND, NoRet, <<>>, <<>>)
     ELSE /\ calls' = [calls EXCEPT ![call_id].status = PICKED_UP]
          /\ lastOp' = Response("answer", current_user_id, call_id, 0,
                                HTTP_200_OK,
                                [NoRet EXCEPT !.message = PICKED_UP],
                                <<>>, Broadcast(call_id, CallAnswered(call_id)))

\* int((call.started_at - call.ended_at).total_seconds()): the operands
\* swapped.
DurationSeconds_Swapped(started_at, ended_at) == started_at - ended_at

\* int((call.ended_at - call.started_at).total_seconds())
DurationSeconds(started_at, ended_at) == ended_at - started_at

\* POST /calls/{call_id}/end
end_call(current_user_id, call_id) ==
  /\ UNCHANGED callVars
  /\ UNCHANGED <<user_connections, call_participants, user_presence,
                 active_connections, sockets, now>>
  /\ IF ~CallExists(call_id)
     THEN /\ UNCHANGED calls
          /\ lastOp' = Response("end", current_user_id, call_id, 0,
                                HTTP_404_NOT_FOUND, NoRet, <<>>, <<>>)
     ELSE LET duration ==
                IF calls[call_id].started_at # Null
                THEN DurationSeconds(calls[call_id].started_at, now)
                ELSE calls[call_id].duration_seconds
          IN /\ calls' = [calls EXCEPT ![call_id].status = ENDED,
                                       ![call_id].ended_at = now,
                                       ![call_id].duration_seconds = duration]
             /\ lastOp' = Response("end", current_user_id, call_id, 0,
                                HTTP_200_OK,
                                [NoRet EXCEPT !.duration_seconds = duration],
                                <<>>, <<>>)

\* GET /calls/{call_id}
get_call(current_user_id, call_id) ==
  /\ UNCHANGED callVars
  /\ UNCHANGED <<user_connections, calls, call_participants, user_presence,
                 active_connections, sockets, now>>
  /\ IF ~CallExists(call_id)
     THEN lastOp' = Response("get", current_user_id, call_id, 0,
                             HTTP_404_NOT_FOUND, NoRet, <<>>, <<>>)
     ELSE lastOp' = Response("get", current_user_id, call_id, 0, HTTP_200_OK,
                             [NoRet EXCEPT !.call_id = call_id,
                                           !.room_name = calls[call_id].room_id,
                                           !.message = calls[call_id].status],
                             <<>>, <<>>)

\* The clock read by datetime.utcnow() and by the server default now().
Tick ==
  /\ UNCHANGED callVars
  /\ now < MaxTime
  /\ now' = now + 1
  /\ lastOp' = Response("tick", 0, 0, 0, 0, NoRet, <<>>, <<>>)
  /\ UNCHANGED <<user_connections, calls, call_participants, user_presence,
                 active_connections, sockets>>


\* ------------------------------------------- websockets/presence_handler.py
\* The audience of broadcast_presence_update taken to be every other user.
ConnectedUserIds_Everyone(user_id) == Users \ {user_id}

\* The audience of broadcast_presence_update taken from connections_initiated
\* alone.
ConnectedUserIds_InitiatedOnly(user_id) ==
  {row[2] : row \in {r \in user_connections : r[1] = user_id}}

\* broadcast_presence_update's audience: both orientations, deduplicated.
ConnectedUserIds(user_id) ==
  {row[2] : row \in {r \in user_connections : r[1] = user_id}}
    \cup {row[1] : row \in {r \in user_connections : r[2] = user_id}}

RECURSIVE AscendingSeq(_)
AscendingSeq(S) ==
  IF S = {} THEN <<>>
  ELSE LET m == CHOOSE x \in S : \A y \in S : x <= y
       IN <<m>> \o AscendingSeq(S \ {m})

\* The deliveries of `msg` to the users of sequence `order`, in that order.
RECURSIVE DeliverEach(_, _, _)
DeliverEach(order, registry, msg) ==
  IF order = <<>> THEN <<>>
  ELSE <<Delivery(Head(order), registry[Head(order)], msg)>>
         \o DeliverEach(Tail(order), registry, msg)

\* The send loop of broadcast_presence_update without its try/except: the
\* first send that raises ends the loop.
RECURSIVE DeliverUntilFailure(_, _, _, _)
DeliverUntilFailure(order, registry, socks, msg) ==
  IF order = <<>> THEN <<>>
  ELSE IF socks[Head(order)][registry[Head(order)]] # "open" THEN <<>>
  ELSE <<Delivery(Head(order), registry[Head(order)], msg)>>
         \o DeliverUntilFailure(Tail(order), registry, socks, msg)

BroadcastPresenceUpdate_AbortOnFailure(user_id, is_online, registry, socks) ==
  DeliverUntilFailure(
    AscendingSeq({v \in ConnectedUserIds(user_id) : registry[v] # 0}),
    registry, socks, PresenceUpdate(user_id, is_online))

\* PresenceManager.broadcast_presence_update under registry `registry` and
\* websocket states `socks`: one send_json per connected user with a registry
\* entry; a send that raises is swallowed and the entry is kept.
BroadcastPresenceUpdate(user_id, is_online, registry, socks) ==
  LET reached == {v \in ConnectedUserIds(user_id) :
                    registry[v] # 0 /\ socks[v][registry[v]] = "open"}
  IN DeliverEach(AscendingSeq(reached), registry,
                 PresenceUpdate(user_id, is_online))

\* self.active_connections[user_id] = websocket, keeping an entry the user
\* already has.
Connect_KeepFirst(registry, user_id, socket) ==
  IF registry[user_id] # 0 THEN registry
  ELSE [registry EXCEPT ![user_id] = socket]

\* self.active_connections[user_id] = websocket
Connect(registry, user_id, socket) == [registry EXCEPT ![user_id] = socket]

\* The token a websocket request presented, as kept in lastOp.ret.
Presented(token_valid) ==
  [NoRet EXCEPT !.message = IF token_valid THEN "token ok" ELSE "token bad"]

\* /ws/presence: token verification, then PresenceManager.connect.
presence_websocket(user_id, socket, token_valid) ==
  /\ UNCHANGED callVars
  /\ sockets[user_id][socket] = "none"
  /\ UNCHANGED <<user_connections, calls, call_participants, now>>
  /\ IF ~token_valid
     THEN /\ UNCHANGED <<sockets, active_connections, user_presence>>
          /\ lastOp' = Response("presence_connect", user_id, 0, socket,
                                WS_1008_POLICY_VIOLATION,
                                Presented(token_valid), <<>>, <<>>)
     ELSE /\ sockets' = [sockets EXCEPT ![user_id][socket] = "open"]
          /\ active_connections' = Connect(active_connections, user_id, socket)
          /\ user_presence' = [user_presence EXCEPT ![user_id] = "online"]
          /\ lastOp' = Response("presence_connect", user_id, 0, socket,
                                HTTP_200_OK, Presented(token_valid),
                                BroadcastPresenceUpdate(user_id, TRUE,
                                  active_connections', sockets'), <<>>)

\* The peer of an open presence websocket goes away; the handler has not yet
\* been resumed with WebSocketDisconnect.
presence_peer_lost(user_id, socket) ==
  /\ UNCHANGED callVars
  /\ sockets[user_id][socket] = "open"
  /\ sockets' = [sockets EXCEPT ![user_id][socket] = "dead"]
  /\ lastOp' = Response("presence_peer_lost", user_id, 0, socket, 0, NoRet,
                        <<>>, <<>>)
  /\ UNCHANGED <<user_connections, calls, call_participants, user_presence,
                 active_connections, now>>

\* The peer of an open presence websocket stops responding without closing
\* the connection: receive_text neither returns nor raises, so the handler
\* stays suspended in its loop.
presence_peer_silent(user_id, socket) ==
  /\ UNCHANGED callVars
  /\ sockets[user_id][socket] = "open"
  /\ sockets' = [sockets EXCEPT ![user_id][socket] = "silent"]
  /\ lastOp' = Response("presence_peer_silent", user_id, 0, socket, 0, NoRet,
                        <<>>, <<>>)
  /\ UNCHANGED <<user_connections, calls, call_participants, user_presence,
                 active_connections, now>>

\* A heartbeat_response read by the handler's loop: nothing changes.
presence_heartbeat_response(user_id, socket) ==
  /\ UNCHANGED callVars
  /\ sockets[user_id][socket] = "open"
  /\ lastOp' = Response("presence_heartbeat_response", user_id, 0, socket, 0,
                        NoRet, <<>>, <<>>)
  /\ UNCHANGED <<user_connections, calls, call_participants, user_presence,
                 active_connections, sockets, now>>

\* The handler's loop ends (a "disconnect" message, WebSocketDisconnect or
\* any other exception) and its finally runs PresenceManager.disconnect.
presence_disconnect(user_id, socket) ==
  /\ UNCHANGED callVars
  /\ sockets[user_id][socket] \in {"open", "dead"}
  /\ sockets' = [sockets EXCEPT ![user_id][socket] = "none"]
  /\ active_connections' = [active_connections EXCEPT ![user_id] = 0]
  /\ user_presence' = [user_presence EXCEPT ![user_id] =
                         IF @ = "norow" THEN @ ELSE "offline"]
  /\ lastOp' = Response("presence_disconnect", user_id, 0, socket, 0, NoRet,
                        BroadcastPresenceUpdate(user_id, FALSE,
                          active_connections', sockets'), <<>>)
  /\ UNCHANGED <<user_connections, calls, call_participants, now>>

\* ----------------------------------------------- websockets/call_handler.py
\* db.query(Call).filter(Call.id == call_id, Call.user_id == sub).first()
\* finding every existing call, whoever owns it.
CallOfUser_AnyOwner(call_id, user_id) == CallExists(call_id)

\* db.query(Call).filter(Call.id == call_id, Call.user_id == sub).first()
CallOfUser(call_id, user_id) ==
  CallExists(call_id) /\ calls[call_id].user_id = user_id

\* ConnectionManager.connect: self.active_connections[call_id] = websocket
ManagerConnect(registry, call_id, socket) == [registry EXCEPT ![call_id] = socket]

\* ConnectionManager.disconnect: del self.active_connections[call_id]
ManagerDisconnect(registry, call_id) == [registry EXCEPT ![call_id] = 0]

Status(message) == [type |-> "status", message |-> message]

TranscriptMessage(text, is_final) ==
  [type |-> "transcript", text |-> text, is_final |-> is_final]

\* /ws/call/{call_id}: token verification, call lookup, manager.connect.
websocket_endpoint(user_id, call_id, socket, token_valid) ==
  /\ call_sockets[socket].state = "none"
  /\ UNCHANGED transcriber_sessions
  /\ UNCHANGED <<user_connections, calls, call_participants, user_presence,
                 active_connections, sockets, now, transcripts>>
  /\ IF ~token_valid \/ ~CallOfUser(call_id, user_id)
     THEN /\ UNCHANGED <<call_connections, call_sockets>>
          /\ lastOp' = Response("call_connect", user_id, call_id, socket,
                                WS_1008_POLICY_VIOLATION,
                                Presented(token_valid), <<>>, <<>>)
     ELSE /\ call_connections' = ManagerConnect(call_connections, call_id, socket)
          /\ call_sockets' = [call_sockets EXCEPT ![socket] =
                                [NoCallSocket EXCEPT !.state = "open",
                                                     !.user = user_id,
                                                     !.call_id = call_id]]
          /\ lastOp' = Response("call_connect", user_id, call_id, socket,
                                HTTP_200_OK, Presented(token_valid), <<>>, <<>>)

\* The transcribers connected and not closed after start_transcription
\* without its `if not transcriber`: one more on every start.
ConnectIfNoTranscriber_Always(sessions, transcriber) == sessions + 1

\* if not transcriber: transcriber = create_realtime_transcriber(...);
\* transcriber.connect()
ConnectIfNoTranscriber(sessions, transcriber) ==
  IF transcriber = None THEN sessions + 1 ELSE sessions

\* if transcriber: transcriber.close()
CloseIfTranscriber(sessions, transcriber) ==
  IF transcriber # None THEN sessions - 1 ELSE sessions

\* {"type": "start_transcription"}: create_realtime_transcriber raises
\* ValueError when no API key is configured, which ends the handler through
\* `except Exception`.
start_transcription(socket, api_key_configured) ==
  LET h == call_sockets[socket] IN
  /\ h.state = "open"
  /\ UNCHANGED <<user_connections, calls, call_participants, user_presence,
                 active_connections, sockets, now, transcripts>>
  /\ IF h.transcriber = None /\ ~api_key_configured
     THEN /\ call_connections' = ManagerDisconnect(call_connections, h.call_id)
          /\ call_sockets' = [call_sockets EXCEPT ![socket] = NoCallSocket]
          /\ UNCHANGED transcriber_sessions
          /\ lastOp' = Response("start_transcription", h.user, h.call_id,
                                socket, 0, NoRet, <<>>, <<>>)
     ELSE /\ UNCHANGED call_connections
          /\ call_sockets' = [call_sockets EXCEPT
                                ![socket].transcriber = "RealtimeTranscriber"]
          /\ transcriber_sessions' = [transcriber_sessions EXCEPT ![socket] =
                                        ConnectIfNoTranscriber(@, h.transcriber)]
          /\ lastOp' = Response("start_transcription", h.user, h.call_id,
                                socket, HTTP_200_OK,
                                [NoRet EXCEPT !.message =
                                   IF h.transcriber = None
                                   THEN "transcriber created"
                                   ELSE "transcriber kept"],
                                <<Delivery(h.user, socket,
                                           Status("Transcription started"))>>,
                                <<>>)

\* on_transcript appending every fragment, interim ones too.
AppendIfFinal_Always(transcript_buffer, text, is_final) ==
  Append(transcript_buffer, text)

\* on_transcript: if is_final: transcript_buffer.append(text)
AppendIfFinal(transcript_buffer, text, is_final) ==
  IF is_final THEN Append(transcript_buffer, text) ELSE transcript_buffer

\* The transcriber hands a fragment to handle_transcript, which drops empty
\* text and calls on_transcript.  on_transcript schedules the send to the
\* frontend on asyncio.get_event_loop() from the transcriber's thread, which
\* may or may not be the running loop: the fragment is forwarded or not.
on_transcript(socket, text, is_final, forwarded) ==
  LET h == call_sockets[socket] IN
  /\ h.state = "open"
  /\ h.transcriber # None
  /\ Len(h.received) < MaxFragments
  /\ UNCHANGED transcriber_sessions
  /\ UNCHANGED <<user_connections, calls, call_participants, user_presence,
                 active_connections, sockets, now, transcripts,
                 call_connections>>
  /\ call_sockets' = [call_sockets EXCEPT
       ![socket].received = Append(@, <<text, is_final>>),
       ![socket].transcript_buffer =
          IF text # "" THEN AppendIfFinal(@, text, is_final) ELSE @]
  /\ lastOp' = Response("on_transcript", h.user, h.call_id, socket, 0, NoRet,
                        IF text # "" /\ forwarded
                        THEN <<Delivery(h.user, socket,
                                        TranscriptMessage(text, is_final))>>
                        ELSE <<>>,
                        <<>>)

\* The transcriber reports a RealtimeError to handle_error.  The handler
\* created the transcriber without an on_error callback, so handle_error's
\* `if on_error:` does nothing: no message, no change of the handler's locals.
transcriber_error(socket) ==
  LET h == call_sockets[socket] IN
  /\ h.state = "open"
  /\ h.transcriber # None
  /\ UNCHANGED transcriber_sessions
  /\ UNCHANGED <<user_connections, calls, call_participants, user_presence,
                 active_connections, sockets, now, transcripts,
                 call_connections, call_sockets>>
  /\ lastOp' = Response("transcriber_error", h.user, h.call_id, socket, 0,
                        NoRet, <<>>, <<>>)

\* transcriber.stream(audio_data) whether or not there is a transcriber.
StreamIfTranscriber_Always(h, audio_data) == Append(h.streamed, audio_data)

\* if transcriber: transcriber.stream(audio_data)
StreamIfTranscriber(h, audio_data) ==
  IF h.transcriber # None THEN Append(h.streamed, audio_data) ELSE h.streamed

\* {"type": "audio"}: the decoded chunk goes to transcriber.stream if there
\* is a transcriber, and is dropped otherwise.
audio(socket, audio_data) ==
  LET h == call_sockets[socket] IN
  /\ h.state = "open"
  /\ Len(h.heard) < MaxAudio
  /\ UNCHANGED transcriber_sessions
  /\ UNCHANGED <<user_connections, calls, call_participants, user_presence,
                 active_connections, sockets, now, transcripts,
                 call_connections>>
  /\ call_sockets' = [call_sockets EXCEPT
       ![socket].heard = Append(@, <<audio_data, h.transcriber # None>>),
       ![socket].streamed = StreamIfTranscriber(h, audio_data)]
  /\ lastOp' = Response("audio", h.user, h.call_id, socket, 0, NoRet,
                        <<>>, <<>>)

\* "".join(transcript_buffer): the fragments with nothing between them.
RECURSIVE Join_NoSeparator(_)
Join_NoSeparator(transcript_buffer) ==
  IF transcript_buffer = <<>> THEN ""
  ELSE transcript_buffer[1] \o Join_NoSeparator(Tail(transcript_buffer))

\* " ".join(transcript_buffer)
RECURSIVE Join(_)
Join(transcript_buffer) ==
  IF transcript_buffer = <<>> THEN ""
  ELSE IF Len(transcript_buffer) = 1 THEN transcript_buffer[1]
  ELSE transcript_buffer[1] \o " " \o Join(Tail(transcript_buffer))

\* {"type": "stop_transcription"}: close the transcriber, write the joined
\* buffer to the call's transcript row, commit, then acknowledge.
stop_transcription(socket) ==
  LET h == call_sockets[socket] IN
  /\ h.state = "open"
  /\ transcriber_sessions' = [transcriber_sessions EXCEPT ![socket] =
                                CloseIfTranscriber(@, h.transcriber)]
  /\ UNCHANGED <<user_connections, calls, call_participants, user_presence,
                 active_connections, sockets, now, call_connections>>
  /\ call_sockets' = [call_sockets EXCEPT ![socket].transcriber = None]
  /\ transcripts' = [transcripts EXCEPT ![h.call_id] =
                       Transcript(Join(h.transcript_buffer))]
  /\ lastOp' = Response("stop_transcription", h.user, h.call_id, socket,
                        HTTP_200_OK, NoRet,
                        <<Delivery(h.user, socket,
                                   Status("Transcription stopped and saved"))>>,
                        <<>>)

\* receive_text raises WebSocketDisconnect: manager.disconnect(call_id), and
\* with a transcriber, close it and save a non-empty buffer.
call_websocket_disconnect(socket) ==
  LET h == call_sockets[socket] IN
  /\ h.state = "open"
  /\ transcriber_sessions' = [transcriber_sessions EXCEPT ![socket] =
                                CloseIfTranscriber(@, h.transcriber)]
  /\ UNCHANGED <<user_connections, calls, call_participants, user_presence,
                 active_connections, sockets, now>>
  /\ call_connections' = ManagerDisconnect(call_connections, h.call_id)
  /\ call_sockets' = [call_sockets EXCEPT ![socket] = NoCallSocket]
  /\ transcripts' =
       IF h.transcriber # None /\ h.transcript_buffer # <<>>
       THEN [transcripts EXCEPT ![h.call_id] =
               Transcript(Join(h.transcript_buffer))]
       ELSE transcripts
  /\ lastOp' = Response("call_disconnect", h.user, h.call_id, socket, 0,
                        [NoRet EXCEPT !.message =
                           IF h.transcriber # None /\ h.transcript_buffer # <<>>
                           THEN "transcript saved" ELSE None],
                        <<>>, <<>>)

\* Any other exception in the loop (json.loads or message["type"] on a
\* malformed message, a failing send): `except Exception` prints it, calls
\* manager.disconnect(call_id) and closes the transcriber; nothing is saved.
call_websocket_exception(socket) ==
  LET h == call_sockets[socket] IN
  /\ h.state = "open"
  /\ transcriber_sessions' = [transcriber_sessions EXCEPT ![socket] =
                                CloseIfTranscriber(@, h.transcriber)]
  /\ UNCHANGED <<user_connections, calls, call_participants, user_presence,
                 active_connections, sockets, now, transcripts>>
  /\ call_connections' = ManagerDisconnect(call_connections, h.call_id)
  /\ call_sockets' = [call_sockets EXCEPT ![socket] = NoCallSocket]
  /\ lastOp' = Response("call_exception", h.user, h.call_id, socket, 0,
                        NoRet, <<>>, <<>>)

\* ------------------------------------------------------------ specifications
ConnectionRequests(Targets) ==
  \E u \in Users, t \in Targets :
    add_connection(u, t) \/ remove_connection(u, t)

InitiateRequests(Targets) ==
  \E u \in Users, t \in Targets, r \in RoomNames : initiate_call(u, t, r)

InviteRequests(Targets, Ids) ==
  \E u \in Users, c \in Ids, t \in Targets : invite_to_call(u, c, t)

AnswerRequests(Ids) == \E u \in Users, c \in Ids : answer_call(u, c)

EndRequests(Ids) == \E u \in Users, c \in Ids : end_call(u, c)

\* The call API over the connection store, requests naming existing users,
\* with the clock running and nobody on a presence websocket.
Next ==
  \/ ConnectionRequests(Users)
  \/ InitiateRequests(Users)
  \/ InviteRequests(Users, CallIds)
  \/ AnswerRequests(CallIds)
  \/ EndRequests(CallIds)
  \/ Tick

Spec == Init /\ [][Next]_vars

\* Call initiation while connections are made and each user's presence
\* websocket (at most NotifySockets per user) comes and goes; the clock stands
\* still.
ConnectRequests == \E u \in Users, t \in Users : add_connection(u, t)

NextNotify ==
  \/ ConnectRequests
  \/ \E u \in Users, k \in 1..NotifySockets : presence_websocket(u, k, TRUE)
  \/ \E u \in Users, k \in 1..NotifySockets : presence_peer_lost(u, k)
  \/ \E u \in Users, k \in 1..NotifySockets : presence_disconnect(u, k)
  \/ InitiateRequests(Users)

SpecNotify == Init /\ [][NextNotify]_vars

\* The call API addressed with ids that may name no call and no user, while
\* users connect and open presence websockets (the clock stands still).
GetRequests(Ids) == \E u \in Users, c \in Ids : get_call(u, c)

NextLookup ==
  \/ ConnectRequests
  \/ \E u \in Users, k \in 1..NotifySockets : presence_websocket(u, k, TRUE)
  \/ InitiateRequests(Users)
  \/ InviteRequests(Users \cup {UnknownUser}, CallIds \cup {UnknownCall})
  \/ AnswerRequests(CallIds \cup {UnknownCall})
  \/ EndRequests(CallIds \cup {UnknownCall})
  \/ GetRequests(CallIds \cup {UnknownCall})

SpecLookup == Init /\ [][NextLookup]_vars

\* The presence websockets alone: users connect to each other and open,
\* lose and close presence websockets, with valid and invalid tokens.  Users
\* 1..MultiSocketUsers open up to PresenceSockets websockets at a time, the
\* others up to NotifySockets.
SocketsOf(u) == IF u <= MultiSocketUsers THEN Sockets ELSE 1..NotifySockets

NextPresence ==
  \/ ConnectRequests
  \/ \E u \in Users, token_valid \in BOOLEAN : \E k \in SocketsOf(u) :
       presence_websocket(u, k, token_valid)
  \/ \E u \in Users : \E k \in SocketsOf(u) : presence_peer_lost(u, k)
  \/ \E u \in Users : \E k \in SocketsOf(u) : presence_heartbeat_response(u, k)
  \/ \E u \in Users : \E k \in SocketsOf(u) : presence_disconnect(u, k)

SpecPresence == Init /\ [][NextPresence]_vars

\* Admission to the call and presence websockets: users connect to each
\* other, initiate calls and open websockets with valid and invalid tokens,
\* for calls that exist and for call ids without a row.
NextCall ==
  \/ ConnectRequests
  \/ \E u \in Users, t \in Users : initiate_call(u, t, None)
  \/ \E u \in Users, token_valid \in BOOLEAN : \E k \in 1..NotifySockets :
       presence_websocket(u, k, token_valid)
  \/ \E u \in Users, c \in CallIds \cup {UnknownCall}, k \in CallSockets,
        token_valid \in BOOLEAN : websocket_endpoint(u, c, k, token_valid)
  \/ \E k \in CallSockets : call_websocket_disconnect(k)

SpecCall == Init /\ [][NextCall]_vars

\* The fragments a transcriber hands over: (text, is_final).
Fragments ==
  {<<"hel", FALSE>>, <<"Hello", TRUE>>, <<"world", TRUE>>, <<"", TRUE>>}

\* Transcription on the call websocket: user 1 connects to the others, calls
\* them, opens up to TranscribingSockets call websockets, starts, feeds and
\* stops transcription on them, and ends the call.
NextTranscript ==
  \/ \E t \in Users : add_connection(1, t)
  \/ \E t \in Users : initiate_call(1, t, None)
  \/ \E c \in CallIds, k \in 1..TranscribingSockets :
       websocket_endpoint(1, c, k, TRUE)
  \/ \E k \in 1..TranscribingSockets, api_key_configured \in BOOLEAN :
       start_transcription(k, api_key_configured)
  \/ \E k \in 1..TranscribingSockets, f \in Fragments, forwarded \in BOOLEAN :
       on_transcript(k, f[1], f[2], forwarded)
  \/ \E k \in 1..TranscribingSockets : transcriber_error(k)
  \/ \E k \in 1..TranscribingSockets : stop_transcription(k)
  \/ \E k \in 1..TranscribingSockets : call_websocket_disconnect(k)
  \/ \E k \in 1..TranscribingSockets : call_websocket_exception(k)
  \/ \E c \in CallIds : end_call(1, c)

SpecTranscript == Init /\ [][NextTranscript]_vars

\* Presence websockets whose peers may go away or fall silent.  The event
\* loop resumes a handler whose receive_text has an exception pending, so the
\* disconnect of a websocket whose peer is gone is weakly fair; nothing else
\* is (requests and peers come when they come).
NextHeartbeat ==
  \/ ConnectRequests
  \/ \E u \in Users, k \in 1..NotifySockets : presence_websocket(u, k, TRUE)
  \/ \E u \in Users, k \in 1..NotifySockets : presence_peer_lost(u, k)
  \/ \E u \in Users, k \in 1..NotifySockets : presence_peer_silent(u, k)
  \/ \E u \in Users, k \in 1..NotifySockets : presence_heartbeat_response(u, k)
  \/ \E u \in Users, k \in 1..NotifySockets : presence_disconnect(u, k)

HandlerResumes(u, k) == sockets[u][k] = "dead" /\ presence_disconnect(u, k)

SpecHeartbeat ==
  /\ Init
  /\ [][NextHeartbeat]_vars
  /\ \A u \in Users, k \in 1..NotifySockets : WF_vars(HandlerResumes(u, k))

\* The audio chunks a client sends.
AudioChunks == {"chunk a", "chunk b"}

\* Audio on the call websocket: user 1 connects to user 2, calls, opens up to
\* TranscribingSockets call websockets and starts transcription, sends audio
\* and stops transcription on them.
NextAudio ==
  \/ add_connection(1, 2)
  \/ initiate_call(1, 2, None)
  \/ \E c \in CallIds, k \in 1..TranscribingSockets :
       websocket_endpoint(1, c, k, TRUE)
  \/ \E k \in 1..TranscribingSockets, api_key_configured \in BOOLEAN :
       start_transcription(k, api_key_configured)
  \/ \E k \in 1..TranscribingSockets, a \in AudioChunks : audio(k, a)
  \/ \E k \in 1..TranscribingSockets : stop_transcription(k)
  \/ \E k \in 1..TranscribingSockets : call_websocket_disconnect(k)

SpecAudio == Init /\ [][NextAudio]_vars

\* Initiation and invitation while the store may be unavailable when the
\* handler looks the connection up, with users on presence websockets.
NextOutage ==
  \/ ConnectRequests
  \/ \E u \in Users, k \in 1..NotifySockets : presence_websocket(u, k, TRUE)
  \/ \E u \in Users, t \in Users, store_available \in BOOLEAN :
       initiate_call_with_store(u, t, None, store_available)
  \/ \E u \in Users, c \in CallIds, t \in Users, store_available \in BOOLEAN :
       invite_to_call_with_store(u, c, t, store_available)

SpecOutage == Init /\ [][NextOutage]_vars

\* ------------------------------------------------------------------ claims
\* An edge between a and b in either orientation (are_connected).
Edge(a, b) == <<a, b>> \in user_connections \/ <<b, a>> \in user_connections

\* The rows of call_participants that belong to call c, as a set of rows.
RowsOf(c) ==
  {call_participants[i] :
     i \in {j \in 1..Len(call_participants) : call_participants[j].call_id = c}}

RowCountOf(c) ==
  Cardinality({j \in 1..Len(call_participants) : call_participants[j].call_id = c})

LegalTransitions ==
  {<<INITIATED, PICKED_UP>>, <<INITIATED, ENDED>>, <<PICKED_UP, ENDED>>}

\* C1: in every step, a call's status either stays as it is or moves along
\* INITIATED->PICKED_UP, INITIATED->ENDED or PICKED_UP->ENDED; in particular
\* an ENDED call never gets another status.
C1_StatusFollowsStateMachine ==
  [][\A c \in 1..Len(calls) :
       calls'[c].status # calls[c].status
         => <<calls[c].status, calls'[c].status>> \in LegalTransitions]_vars

\* C2: an answer on a call that is INITIATED or PICKED_UP leaves it PICKED_UP
\* and emits one call_answered broadcast if the call was INITIATED and none if
\* it already was PICKED_UP (one broadcast per state change, not per answer).
C2_OneBroadcastPerStateChange ==
  [][(lastOp'.op = "answer" /\ CallExists(lastOp'.call)
        /\ calls[lastOp'.call].status \in {INITIATED, PICKED_UP})
       => /\ lastOp'.code = HTTP_200_OK
          /\ calls'[lastOp'.call].status = PICKED_UP
          /\ Len(lastOp'.bcast) =
               (IF calls[lastOp'.call].status = INITIATED THEN 1 ELSE 0)]_vars

\* C3: an end on a call that is already ENDED returns the duration stored by
\* the first end and leaves ended_at and duration_seconds as they are.
C3_EndOnEndedIsIdempotent ==
  [][(lastOp'.op = "end" /\ CallExists(lastOp'.call)
        /\ calls[lastOp'.call].status = ENDED)
       => /\ lastOp'.ret.duration_seconds = calls[lastOp'.call].duration_seconds
          /\ calls'[lastOp'.call].ended_at = calls[lastOp'.call].ended_at
          /\ calls'[lastOp'.call].duration_seconds =
               calls[lastOp'.call].duration_seconds]_vars

\* C4: an answer on an ENDED call is refused, leaves the call ENDED and emits
\* no call_answered broadcast.
C4_AnswerOnEndedIsRefused ==
  [][(lastOp'.op = "answer" /\ CallExists(lastOp'.call)
        /\ calls[lastOp'.call].status = ENDED)
       => /\ lastOp'.code # HTTP_200_OK
          /\ calls'[lastOp'.call].status = ENDED
          /\ lastOp'.bcast = <<>>]_vars

\* C5: an initiate between two users with no connection row in either
\* orientation is answered 403 and adds no call row, no participant row and
\* sends no notification.
C5_InitiateWithoutEdgeCreatesNothing ==
  [][(lastOp'.op = "initiate" /\ ~Edge(lastOp'.user, lastOp'.target))
       => /\ lastOp'.code = HTTP_403_FORBIDDEN
          /\ calls' = calls
          /\ call_participants' = call_participants
          /\ lastOp'.sent = <<>>
          /\ lastOp'.bcast = <<>>]_vars

\* Reached: a refused initiate between two different users while the store
\* holds a connection of the caller with somebody else.
C5_Witness ==
  /\ lastOp.op = "initiate"
  /\ lastOp.code = HTTP_403_FORBIDDEN
  /\ lastOp.user # lastOp.target
  /\ ~Edge(lastOp.user, lastOp.target)
  /\ \E v \in Users : Edge(lastOp.user, v)

\* C7: right after a successful initiate the new call is the last row of
\* calls, is INITIATED with the request's caller and callee, and its
\* participant rows are exactly (caller, host) and (callee, participant).
C7_NewCallIsInitiatedWithHostAndCallee ==
  (lastOp.op = "initiate" /\ lastOp.code = HTTP_200_OK)
    => /\ lastOp.call = Len(calls)
       /\ lastOp.ret.call_id = lastOp.call
       /\ calls[lastOp.call].status = INITIATED
       /\ calls[lastOp.call].caller_id = lastOp.user
       /\ calls[lastOp.call].callee_id = lastOp.target
       /\ calls[lastOp.call].ended_at = Null
       /\ RowCountOf(lastOp.call) = 2
       /\ RowsOf(lastOp.call) =
            {[call_id |-> lastOp.call, user_id |-> lastOp.user, role |-> "host"],
             [call_id |-> lastOp.call, user_id |-> lastOp.target,
              role |-> "participant"]}

\* Reached: a call has just been created.
C7_Witness ==
  /\ lastOp.op = "initiate"
  /\ lastOp.code = HTTP_200_OK
  /\ Len(calls) >= 1
  /\ lastOp.user # lastOp.target

\* C8: no call ever has two participant rows for the same user.
C8_OneParticipantRowPerUser ==
  \A c \in 1..Len(calls), u \in Users : Cardinality(ParticipantRows(c, u)) <= 1

\* Reached: an invite of a user who already is a participant was served, and
\* the call also has a third participant who was invited.
C8_Witness ==
  /\ lastOp.op = "invite"
  /\ lastOp.code = HTTP_200_OK
  /\ lastOp.ret.message = "User is already in the call"
  /\ RowCountOf(lastOp.call) = 3

\* C9: an invite by a participant that names another user who already is a
\* participant of the call and is connected to the inviter succeeds and
\* leaves the participant rows as they are, however the connection row
\* between the two is oriented.
C9_ReinviteIsNoOpSuccess ==
  [][(lastOp'.op = "invite" /\ CallExists(lastOp'.call)
        /\ IsParticipant(lastOp'.call, lastOp'.user)
        /\ IsParticipant(lastOp'.call, lastOp'.target)
        /\ lastOp'.target # lastOp'.user
        /\ Edge(lastOp'.user, lastOp'.target))
       => /\ lastOp'.code = HTTP_200_OK
          /\ call_participants' = call_participants]_vars

\* C10: an invite by a participant that names an existing user who is not yet
\* in the call adds that user exactly when the user has a connection row, in
\* either orientation, with at least one participant of the call; otherwise
\* it is refused with an authorization error and the participant rows stay
\* as they are.
C10_InviteAuthorizedByAnyParticipant ==
  [][(lastOp'.op = "invite" /\ CallExists(lastOp'.call)
        /\ UserExists(lastOp'.target)
        /\ IsParticipant(lastOp'.call, lastOp'.user)
        /\ ~IsParticipant(lastOp'.call, lastOp'.target))
       => IF \E p \in ParticipantsOf(lastOp'.call) : Edge(p, lastOp'.target)
          THEN /\ lastOp'.code = HTTP_200_OK
               /\ \E i \in 1..Len(call_participants') :
                    /\ call_participants'[i].call_id = lastOp'.call
                    /\ call_participants'[i].user_id = lastOp'.target
          ELSE /\ lastOp'.code \in {HTTP_403_FORBIDDEN, HTTP_400_BAD_REQUEST}
               /\ call_participants' = call_participants]_vars

\* The one delivery an initiate owes the callee: an incoming_call on the
\* callee's registered socket `socket`, carrying the id and room of the new
\* call row, which are also those of the response.
OwedIncomingCall(op, socket) ==
  <<Delivery(op.target, socket,
             [type |-> "incoming_call", call_id |-> Len(calls),
              caller_id |-> op.user, room_name |-> calls[Len(calls)].room_id])>>

RefusedNotFound ==
  /\ lastOp'.code = HTTP_404_NOT_FOUND
  /\ calls' = calls
  /\ call_participants' = call_participants
  /\ user_connections' = user_connections
  /\ active_connections' = active_connections
  /\ lastOp'.sent = <<>>
  /\ lastOp'.bcast = <<>>

\* C11 (as claimed): answer, end, get and invite on a call id without a row,
\* and invite naming a user without a row, are answered 404, change no call
\* row, participant row, connection row or registry entry and send nothing.
C11_MissingCallOrTargetIsNotFound ==
  [][(\/ (lastOp'.op \in {"answer", "end", "get", "invite"}
           /\ ~CallExists(lastOp'.call))
      \/ (lastOp'.op = "invite" /\ lastOp'.target \notin Users))
       => RefusedNotFound]_vars

\* C11 (amended): the same, where the invite that names a user without a row
\* on an existing call is made by a participant of that call.
C11_MissingCallOrTargetOfParticipantIsNotFound ==
  [][(\/ (lastOp'.op \in {"answer", "end", "get", "invite"}
           /\ ~CallExists(lastOp'.call))
      \/ (lastOp'.op = "invite" /\ lastOp'.target \notin Users
           /\ CallExists(lastOp'.call)
           /\ IsParticipant(lastOp'.call, lastOp'.user)))
       => RefusedNotFound]_vars

\* Reached: a participant of an existing call, whose other participant is on
\* a presence websocket, has invited a user without a row and got 404.
C11_Witness ==
  /\ lastOp.op = "invite"
  /\ lastOp.code = HTTP_404_NOT_FOUND
  /\ CallExists(lastOp.call)
  /\ IsParticipant(lastOp.call, lastOp.user)
  /\ lastOp.target \notin Users
  /\ \E v \in ParticipantsOf(lastOp.call) : v # lastOp.user /\ SendSucceeds(v)

\* A presence websocket of user u that is still held by its handler but is
\* not the one the registry maps u to.
Evicted(u, k) == sockets[u][k] # "none" /\ active_connections[u] # k

\* C12: a presence connect leaves the registry mapping the user to the
\* websocket just connected (whatever it mapped the user to before), and
\* every message any step delivers to a user goes out on the websocket the
\* registry maps that user to, hence never on an evicted one.
C12_SecondConnectEvictsFirst ==
  [][/\ (lastOp'.op = "presence_connect" /\ lastOp'.code = HTTP_200_OK)
          => active_connections'[lastOp'.user] = lastOp'.target
     /\ \A i \in 1..Len(lastOp'.sent) :
          /\ lastOp'.sent[i].socket = active_connections[lastOp'.sent[i].to]
          /\ ~Evicted(lastOp'.sent[i].to, lastOp'.sent[i].socket)]_vars

\* Reached: a message was delivered to a user on the second websocket while
\* the user's first websocket, evicted by the second connect, is still open.
C12_Witness ==
  \E u \in Users :
    /\ sockets[u][1] = "open"
    /\ sockets[u][2] = "open"
    /\ active_connections[u] = 2
    /\ lastOp.op # "presence_connect"
    /\ \E i \in 1..Len(lastOp.sent) :
         lastOp.sent[i].to = u /\ lastOp.sent[i].socket = 2

\* C13: every presence_update that has been delivered went to a user who has
\* a connection row, in one orientation or the other, with the user the
\* update is about.
C13_PresenceUpdateOnlyToConnectedUsers ==
  \A i \in 1..Len(lastOp.sent) :
    lastOp.sent[i].msg.type = "presence_update"
      => Edge(lastOp.sent[i].msg.user_id, lastOp.sent[i].to)

\* Reached: a presence_update about a user was delivered to a connected user
\* while a third user, on an open presence websocket, has no connection row
\* with the user the update is about.
C13_Witness ==
  /\ lastOp.op \in {"presence_connect", "presence_disconnect"}
  /\ Len(lastOp.sent) >= 1
  /\ \E c \in Users :
       /\ c # lastOp.user
       /\ ~Edge(lastOp.user, c)
       /\ SendSucceeds(c)
       /\ \E b \in Users : Edge(b, c)

\* The presence_update about user a owed to user b on the websocket the
\* registry maps b to.
OwedPresenceUpdate(a, online, b) ==
  Delivery(b, active_connections[b], PresenceUpdate(a, online))

\* C14: in every step in which a user's is_online changes, each user who has
\* a connection row with that user, in either orientation, and is registered
\* with an open websocket is delivered a presence_update carrying the user's
\* id and new is_online.
C14_TransitionReachesConnectedOnlineUsers ==
  [][\A a \in Users :
       user_presence'[a] # user_presence[a]
         => \A b \in Users :
              (Edge(a, b) /\ SendSucceeds(b))
                => \E i \in 1..Len(lastOp'.sent) :
                     lastOp'.sent[i] =
                       OwedPresenceUpdate(a, user_presence'[a] = "online", b)]_vars

\* Reached: a user went offline and the update was delivered to a user whose
\* connection row with that user is stored as (receiver, subject), and to a
\* second user whose row is stored as (subject, receiver).
C14_Witness ==
  /\ lastOp.op = "presence_disconnect"
  /\ user_presence[lastOp.user] = "offline"
  /\ \E i, j \in 1..Len(lastOp.sent) :
       /\ <<lastOp.sent[i].to, lastOp.user>> \in user_connections
       /\ <<lastOp.user, lastOp.sent[j].to>> \in user_connections

\* The users a served request tried to send to: the audience of the presence
\* broadcast of a connect or disconnect, the target of an add_connection.
SendTargets(op) ==
  IF op.op = "presence_disconnect"
       \/ (op.op = "presence_connect" /\ op.code = HTTP_200_OK)
  THEN ConnectedUserIds(op.user)
  ELSE IF op.op = "add_connection" /\ op.code = HTTP_200_OK
  THEN {op.target}
  ELSE {}

\* C15: whenever a request tries to send to a user whose registered websocket
\* has lost its peer, so that the send fails, that user has no registry entry
\* once the request is served.
C15_FailedSendEvictsStaleEntry ==
  [][\A v \in SendTargets(lastOp') :
       (Registered(v) /\ ~SendSucceeds(v)) => active_connections'[v] = 0]_vars

\* A presence connect or disconnect was served and broadcast while a user of
\* its audience was registered with a websocket whose peer is gone.
BroadcastMetFailure(op) ==
  /\ \/ op.op = "presence_disconnect"
     \/ (op.op = "presence_connect" /\ op.code = HTTP_200_OK)
  /\ \E v \in ConnectedUserIds(op.user) : Registered(v) /\ ~SendSucceeds(v)

\* C16: a presence connect or disconnect whose broadcast meets a failing send
\* still delivers the presence_update to every connected user registered with
\* an open websocket, and completes: the connect leaves the user registered
\* on the new websocket and online, the disconnect leaves the user
\* unregistered and offline.
C16_FailedSendDoesNotAbortBroadcast ==
  [][BroadcastMetFailure(lastOp')
       => /\ \A w \in ConnectedUserIds(lastOp'.user) :
               SendSucceeds(w)
                 => \E i \in 1..Len(lastOp'.sent) :
                      /\ lastOp'.sent[i].to = w
                      /\ lastOp'.sent[i].msg.type = "presence_update"
                      /\ lastOp'.sent[i].msg.user_id = lastOp'.user
          /\ IF lastOp'.op = "presence_connect"
             THEN /\ active_connections'[lastOp'.user] = lastOp'.target
                  /\ user_presence'[lastOp'.user] = "online"
             ELSE /\ active_connections'[lastOp'.user] = 0
                  /\ user_presence'[lastOp'.user] = "offline"]_vars

\* Reached: a broadcast whose audience holds a user with a dead websocket and,
\* after that user in the order of the loop, a user who got the update.
C16_Witness ==
  /\ lastOp.op \in {"presence_connect", "presence_disconnect"}
  /\ \E v, w \in ConnectedUserIds(lastOp.user) :
       /\ v < w
       /\ Registered(v) /\ ~SendSucceeds(v)
       /\ \E i \in 1..Len(lastOp.sent) : lastOp.sent[i].to = w

\* C17: a disconnect for a user who has no registry entry and is already
\* marked offline does nothing: no presence_update is sent again and the
\* registry and the presence rows stay as they are.
C17_DisconnectOfUnregisteredIsNoOp ==
  [][(lastOp'.op = "presence_disconnect" /\ ~Registered(lastOp'.user)
        /\ user_presence[lastOp'.user] = "offline")
       => /\ lastOp'.sent = <<>>
          /\ active_connections' = active_connections
          /\ user_presence' = user_presence]_vars

\* A websocket request that must not be admitted: its token failed
\* verification, or it is for a call websocket and names a call id without a
\* row or a call the user is no participant of.
MustBeRefused(op) ==
  \/ op.ret.message = "token bad"
  \/ /\ op.op = "call_connect"
     /\ (~CallExists(op.call) \/ ~IsParticipant(op.call, op.user))

\* C18: a presence or call websocket request that must not be admitted is
\* closed with code 1008 and leaves both registries, the websocket's handler
\* state and the presence rows as they were, and nothing is sent.
C18_RejectedChannelIsNeverAdmitted ==
  [][(lastOp'.op \in {"presence_connect", "call_connect"}
        /\ MustBeRefused(lastOp'))
       => /\ lastOp'.code = WS_1008_POLICY_VIOLATION
          /\ active_connections' = active_connections
          /\ call_connections' = call_connections
          /\ sockets' = sockets
          /\ call_sockets' = call_sockets
          /\ user_presence' = user_presence
          /\ lastOp'.sent = <<>>
          /\ lastOp'.bcast = <<>>]_vars

\* Reached: a user who is no participant of an existing call presented a
\* valid token for its call websocket and was refused, while the call's
\* owner is on that call's websocket and a connected user is on a presence
\* websocket.
C18_Witness ==
  /\ lastOp.op = "call_connect"
  /\ lastOp.code = WS_1008_POLICY_VIOLATION
  /\ lastOp.ret.message = "token ok"
  /\ CallExists(lastOp.call)
  /\ ~IsParticipant(lastOp.call, lastOp.user)
  /\ call_connections[lastOp.call] # 0
  /\ \E v \in Users : Edge(v, lastOp.user) /\ SendSucceeds(v)

\* C19: a participant of an existing call who presents a valid token on the
\* call websocket is admitted, and from then on every open call websocket of
\* that call is one the registry holds for the call, so that a broadcast to
\* the call can reach all of them.
C19_EveryParticipantHoldsALiveCallChannel ==
  [][(lastOp'.op = "call_connect" /\ lastOp'.ret.message = "token ok"
        /\ CallExists(lastOp'.call)
        /\ IsParticipant(lastOp'.call, lastOp'.user))
       => /\ lastOp'.code = HTTP_200_OK
          /\ \A k \in CallSockets :
               (call_sockets'[k].state = "open"
                  /\ call_sockets'[k].call_id = lastOp'.call)
                 => call_connections'[lastOp'.call] = k]_vars

\* The texts of the final fragments of `received`, in arrival order, without
\* the empty ones.
RECURSIVE FinalTexts(_)
FinalTexts(received) ==
  IF received = <<>> THEN <<>>
  ELSE (IF Head(received)[2] /\ Head(received)[1] # ""
        THEN <<Head(received)[1]>> ELSE <<>>) \o FinalTexts(Tail(received))

\* The texts of `texts` with one space between neighbours, built from the
\* left.
RECURSIVE SpaceJoined(_, _)
SpaceJoined(acc, texts) ==
  IF texts = <<>> THEN acc
  ELSE SpaceJoined(acc \o " " \o Head(texts), Tail(texts))

ExpectedTranscript(received) ==
  LET finals == FinalTexts(received)
  IN IF finals = <<>> THEN "" ELSE SpaceJoined(Head(finals), Tail(finals))

\* C20: a stop_transcription served on a websocket with a transcriber leaves
\* the websocket without one and the call's transcript row holding exactly
\* the final fragments handed over so far on that websocket, in arrival order
\* with single spaces between them, in the same step that sends the
\* "stopped and saved" status.
C20_StopPersistsFinalsInOrder ==
  [][(lastOp'.op = "stop_transcription"
        /\ call_sockets[lastOp'.target].transcriber # None)
       => /\ call_sockets'[lastOp'.target].transcriber = None
          /\ transcripts'[lastOp'.call] =
               Transcript(ExpectedTranscript(call_sockets[lastOp'.target].received))
          /\ lastOp'.sent =
               <<Delivery(lastOp'.user, lastOp'.target,
                          Status("Transcription stopped and saved"))>>]_vars

\* Reached: after the interim "hel" and the finals "Hello" and "world" a stop
\* has replaced an earlier transcript of the call by "Hello world".
C20_Witness ==
  /\ lastOp.op = "stop_transcription"
  /\ call_sockets[lastOp.target].received =
       <<(<<"hel", FALSE>>), (<<"Hello", TRUE>>), (<<"world", TRUE>>)>>
  /\ transcripts[lastOp.call] = Transcript("Hello world")

\* C21: when receive_text raises WebSocketDisconnect on a call websocket that
\* has a transcriber and has been handed final fragments, the call's
\* transcript row becomes those finals joined by single spaces, the
\* transcriber is gone, the registry holds no entry for the call, and the
\* handler is gone with its websocket, so that no second teardown can follow.
C21_AbruptDisconnectPersistsAndTearsDown ==
  [][(lastOp'.op = "call_disconnect"
        /\ call_sockets[lastOp'.target].transcriber # None
        /\ FinalTexts(call_sockets[lastOp'.target].received) # <<>>)
       => /\ transcripts'[lastOp'.call] =
               Transcript(ExpectedTranscript(call_sockets[lastOp'.target].received))
          /\ call_connections'[lastOp'.call] = 0
          /\ call_sockets'[lastOp'.target] = NoCallSocket
          /\ lastOp'.ret.message = "transcript saved"]_vars

\* Reached: a call websocket that was streaming with the finals "Hello" and
\* "world" was disconnected and the call's transcript is "Hello world".
C21_Witness ==
  /\ lastOp.op = "call_disconnect"
  /\ lastOp.ret.message = "transcript saved"
  /\ transcripts[lastOp.call] = Transcript("Hello world")
  /\ call_connections[lastOp.call] = 0
  /\ call_sockets[lastOp.target].state = "none"

\* C22: when the transcriber of a call websocket reports a fatal error, one
\* error event is sent on that websocket, the websocket stays open, and the
\* handler is left without a transcriber, so that the next start_transcription
\* creates a new one.
C22_TranscriberErrorIsReportedAndRelayIdle ==
  [][lastOp'.op = "transcriber_error"
       => /\ Len(lastOp'.sent) = 1
          /\ lastOp'.sent[1].socket = lastOp'.target
          /\ lastOp'.sent[1].msg.type = "error"
          /\ call_sockets'[lastOp'.target].state = "open"
          /\ call_sockets'[lastOp'.target].transcriber = None]_vars

\* C23: once an end of a call has been served, no call websocket of that call
\* has a transcriber left, and a websocket of the call that had one and had
\* been handed final fragments has had them written to the call's transcript
\* row.
C23_EndTearsDownStreamingRelay ==
  [][(lastOp'.op = "end" /\ lastOp'.code = HTTP_200_OK)
       => \A k \in CallSockets :
            (call_sockets[k].state = "open"
               /\ call_sockets[k].call_id = lastOp'.call
               /\ call_sockets[k].transcriber # None)
              => /\ call_sockets'[k].transcriber = None
                 /\ FinalTexts(call_sockets[k].received) # <<>>
                      => transcripts'[lastOp'.call] =
                           Transcript(ExpectedTranscript(call_sockets[k].received))]_vars

\* C24: whenever a user is registered with a presence websocket whose peer
\* has fallen silent, the registry eventually no longer maps the user to
\* that websocket and the user is marked offline.
C24_SilentPeerIsEventuallyDisconnected ==
  \A u \in Users, k \in 1..NotifySockets :
    (sockets[u][k] = "silent" /\ active_connections[u] = k)
      ~> (active_connections[u] # k /\ user_presence[u] = "offline")

\* C25: an end of a call that is INITIATED or PICKED_UP leaves it ENDED with
\* ended_at the time of the request; with started_at set, the stored and the
\* returned duration are ended_at minus started_at in seconds and not
\* negative, without started_at both are null.
C25_EndStoresElapsedSeconds ==
  [][(lastOp'.op = "end" /\ CallExists(lastOp'.call)
        /\ calls[lastOp'.call].status \in {INITIATED, PICKED_UP})
       => /\ lastOp'.code = HTTP_200_OK
          /\ calls'[lastOp'.call].status = ENDED
          /\ calls'[lastOp'.call].ended_at = now
          /\ lastOp'.ret.duration_seconds = calls'[lastOp'.call].duration_seconds
          /\ IF calls[lastOp'.call].started_at # Null
             THEN /\ calls'[lastOp'.call].duration_seconds =
                       now - calls[lastOp'.call].started_at
                  /\ calls'[lastOp'.call].duration_seconds >= 0
             ELSE calls'[lastOp'.call].duration_seconds = Null]_vars

\* Reached: a call that was picked up has been ended one second after it
\* started, and the end returned 1.
C25_Witness ==
  /\ lastOp.op = "end"
  /\ lastOp.code = HTTP_200_OK
  /\ lastOp.ret.duration_seconds = 1
  /\ calls[lastOp.call].status = ENDED
  /\ calls[lastOp.call].started_at = 0
  /\ calls[lastOp.call].ended_at = 1

RECURSIVE HeardWhileStreaming(_)
HeardWhileStreaming(heard) ==
  IF heard = <<>> THEN <<>>
  ELSE (IF Head(heard)[2] THEN <<Head(heard)[1]>> ELSE <<>>)
         \o HeardWhileStreaming(Tail(heard))

\* C27: on every call websocket the transcriber appears only through
\* start_transcription and goes only through stop_transcription or the end of
\* the handler; the chunks passed on to the transcriber are exactly those read
\* while there was one, in the order read; and an audio message read while
\* there is none leaves the handler's transcriber, buffer and passed chunks,
\* the registry and the transcripts as they are.
C27_RelayStateMachineAndAudioForwarding ==
  [][\A k \in CallSockets :
       /\ (call_sockets[k].transcriber = None
             /\ call_sockets'[k].transcriber # None)
            => (lastOp'.op = "start_transcription" /\ lastOp'.target = k)
       /\ (call_sockets[k].transcriber # None
             /\ call_sockets'[k].transcriber = None)
            => (lastOp'.op \in {"stop_transcription", "call_disconnect"}
                  /\ lastOp'.target = k)
       /\ call_sockets'[k].streamed = HeardWhileStreaming(call_sockets'[k].heard)
       /\ (lastOp'.op = "audio" /\ lastOp'.target = k
             /\ call_sockets[k].transcriber = None)
            => /\ call_sockets'[k].transcriber = None
               /\ call_sockets'[k].streamed = call_sockets[k].streamed
               /\ call_sockets'[k].transcript_buffer =
                    call_sockets[k].transcript_buffer
               /\ call_sockets'[k].state = "open"
               /\ call_connections' = call_connections
               /\ transcripts' = transcripts]_vars

\* Reached: a call websocket read a chunk before its transcription was
\* started and dropped it, then read two chunks while streaming and passed
\* them on in order.
C27_Witness ==
  \E k \in CallSockets :
    /\ call_sockets[k].heard =
         <<(<<"chunk a", FALSE>>), (<<"chunk b", TRUE>>), (<<"chunk a", TRUE>>)>>
    /\ call_sockets[k].streamed = <<"chunk b", "chunk a">>

\* C28: when a call websocket that has a transcriber and has been handed
\* final fragments is ended by an exception in its message loop, it is
\* cleaned up as by a disconnect: the registry holds no entry for the call,
\* the handler is gone with its transcriber, and the call's transcript row
\* holds the finals joined by single spaces; the other call websockets are
\* as they were.
C28_ExceptionCleansUpLikeDisconnect ==
  [][(lastOp'.op = "call_exception"
        /\ call_sockets[lastOp'.target].transcriber # None
        /\ FinalTexts(call_sockets[lastOp'.target].received) # <<>>)
       => /\ call_connections'[lastOp'.call] = 0
          /\ call_sockets'[lastOp'.target] = NoCallSocket
          /\ transcripts'[lastOp'.call] =
               Transcript(ExpectedTranscript(call_sockets[lastOp'.target].received))
          /\ \A k \in CallSockets \ {lastOp'.target} :
               call_sockets'[k] = call_sockets[k]]_vars

\* The requests of users for which the store is unavailable when the
\* handler looks the connection up.
RequestDuringOutage ==
  \/ \E u \in Users, t \in Users : initiate_call_with_store(u, t, None, FALSE)
  \/ \E u \in Users, c \in CallIds, t \in Users :
       invite_to_call_with_store(u, c, t, FALSE)

\* C29: an initiate or an invite for which the store is unavailable when the
\* connection is looked up fails (it is not answered 200), adds no call row
\* and no participant row, and sends no incoming_call notification.
C29_LookupFailureCreatesNothing ==
  [][RequestDuringOutage
       => /\ lastOp'.code # HTTP_200_OK
          /\ calls' = calls
          /\ call_participants' = call_participants
          /\ active_connections' = active_connections
          /\ lastOp'.sent = <<>>
          /\ lastOp'.bcast = <<>>]_vars

\* C29 witness: an invite between connected users, the target on a presence
\* websocket, has failed on the connection lookup after an initiate had
\* failed the same way earlier and succeeded later.
C29_Witness ==
  /\ lastOp.op = "invite"
  /\ lastOp.code = HTTP_500_INTERNAL_SERVER_ERROR
  /\ <<lastOp.user, lastOp.target>> \in user_connections
  /\ Registered(lastOp.target)
  /\ Len(calls) > 0
  /\ \A i \in 1..Len(call_participants) :
       call_participants[i].user_id # lastOp.target

\* C30: when the handler of a replaced presence websocket ends while the
\* user's registered, later websocket is still open, the user stays
\* registered with the later websocket and marked online, and no offline
\* presence_update about the user is sent.
C30_ReplacedConnectionTeardownKeepsSuccessor ==
  [][(/\ lastOp'.op = "presence_disconnect"
      /\ Registered(lastOp'.user)
      /\ active_connections[lastOp'.user] # lastOp'.target
      /\ sockets[lastOp'.user][active_connections[lastOp'.user]] = "open")
       => /\ active_connections'[lastOp'.user] = active_connections[lastOp'.user]
          /\ user_presence'[lastOp'.user] = "online"
          /\ \A i \in 1..Len(lastOp'.sent) :
               lastOp'.sent[i].msg # PresenceUpdate(lastOp'.user, FALSE)]_vars

\* C31: when a call websocket closes while another call websocket of the same
\* call is open and registered, the registry keeps the entry of the other
\* one: an entry goes only when the websocket it refers to closes.
C31_CloseKeepsOtherCallChannelRegistered ==
  [][(/\ lastOp'.op \in {"call_disconnect", "call_exception"}
      /\ call_connections[lastOp'.call] # 0
      /\ call_connections[lastOp'.call] # lastOp'.target
      /\ call_sockets[call_connections[lastOp'.call]].state = "open"
      /\ call_sockets[call_connections[lastOp'.call]].call_id = lastOp'.call)
       => call_connections'[lastOp'.call] = call_connections[lastOp'.call]]_vars

\* C32: a stop_transcription read by a handler that has no transcriber and
\* an empty transcript_buffer leaves the transcript rows as they are.
C32_IdleStopLeavesTranscriptUnchanged ==
  [][(/\ lastOp'.op = "stop_transcription"
      /\ call_sockets[lastOp'.target].transcriber = None
      /\ call_sockets[lastOp'.target].transcript_buffer = <<>>)
       => transcripts' = transcripts]_vars

\* C33: in every reachable state a call row has an end timestamp and a
\* duration exactly when its status is ended.
C33_EndTimestampIffEnded ==
  \A c \in 1..Len(calls) :
    /\ (calls[c].ended_at # Null) <=> (calls[c].status = ENDED)
    /\ (calls[c].duration_seconds # Null) <=> (calls[c].status = ENDED)

C35_OneEdgePerPairAndRemovalUnauthorizes ==
  /\ \A a \in Users, b \in Users :
       /\ <<a, a>> \notin user_connections
       /\ ~(<<a, b>> \in user_connections /\ <<b, a>> \in user_connections)
  /\ (lastOp.op = "remove_connection" /\ lastOp.code = HTTP_200_OK)
       => /\ ~InitiateConnectionQuery(lastOp.user, lastOp.target)
          /\ ~InitiateConnectionQuery(lastOp.target, lastOp.user)
          /\ lastOp.target \notin ConnectedUserIds(lastOp.user)
          /\ lastOp.user \notin ConnectedUserIds(lastOp.target)

\* C35 witness: a connection has been removed while connections of other
\* pairs remain and a call has been made.
C35_Witness ==
  /\ lastOp.op = "remove_connection"
  /\ lastOp.code = HTTP_200_OK
  /\ Cardinality(user_connections) >= 2
  /\ Len(calls) > 0

\* C36: an initiate_call naming the caller as its target is answered 403 and
\* adds no call row, no participant row and sends nothing; no call row ever
\* has the same user as caller and callee.
C36_SelfCallIsRefused ==
  [][/\ (lastOp'.op = "initiate" /\ lastOp'.user = lastOp'.target)
          => /\ lastOp'.code = HTTP_403_FORBIDDEN
             /\ calls' = calls
             /\ call_participants' = call_participants
             /\ lastOp'.sent = <<>>
     /\ \A c \in 1..Len(calls') : calls'[c].caller_id # calls'[c].callee_id]_vars

\* C36 witness: a user who has connections with the two other users has
\* been refused a call to themselves.
C36_Witness ==
  /\ lastOp.op = "initiate"
  /\ lastOp.user = lastOp.target
  /\ lastOp.code = HTTP_403_FORBIDDEN
  /\ Cardinality(ConnectedUserIds(lastOp.user)) = NUsers - 1

\* The participant rows of call c that have role `role`.
RowsWithRole(rows, c, role) ==
  {i \in 1..Len(rows) : rows[i].call_id = c /\ rows[i].role = role}

\* C37: after every step each call has exactly one participant row with role
\* host, that of its caller, every other row of the call has role
\* participant, and the step has removed no participant row and changed none.
C37_OneHostTheCallerAndRowsOnlyAdded ==
  [][/\ \A c \in 1..Len(calls') :
          /\ Cardinality(RowsWithRole(call_participants', c, "host")) = 1
          /\ \A i \in RowsWithRole(call_participants', c, "host") :
               call_participants'[i].user_id = calls'[c].caller_id
          /\ \A i \in 1..Len(call_participants') :
               call_participants'[i].call_id = c
                 => call_participants'[i].role \in {"host", "participant"}
     /\ Len(call_participants') >= Len(call_participants)
     /\ \A i \in 1..Len(call_participants) :
          call_participants'[i] = call_participants[i]]_vars

\* C37 witness: an invite has just added a third participant row to a call.
C37_Witness ==
  /\ lastOp.op = "invite"
  /\ lastOp.code = HTTP_200_OK
  /\ RowCountOf(lastOp.call) = 3
  /\ call_participants[Len(call_participants)] =
       [call_id |-> lastOp.call, user_id |-> lastOp.target,
        role |-> "participant"]

\* C38: an answer or end request for an existing call from a user who has no
\* participant row of that call is refused and leaves the call row as it is.
C38_OnlyParticipantsChangeCallState ==
  [][(/\ lastOp'.op \in {"answer", "end"}
      /\ CallExists(lastOp'.call)
      /\ ~IsParticipant(lastOp'.call, lastOp'.user))
       => /\ lastOp'.code # HTTP_200_OK
          /\ calls' = calls]_vars

\* C39: a call websocket never has more than one transcriber connected and
\* not closed; a start_transcription read while the handler has a transcriber
\* connects no further one and only sends the status message; a handler
\* without a transcriber, and a websocket whose handler has ended, have none
\* left open.
C39_AtMostOneTranscriberSession ==
  [][/\ \A k \in CallSockets :
          /\ transcriber_sessions'[k] \in {0, 1}
          /\ (call_sockets'[k].state = "none" \/ call_sockets'[k].transcriber = None)
               => transcriber_sessions'[k] = 0
     /\ (lastOp'.op = "start_transcription"
           /\ call_sockets[lastOp'.target].transcriber # None)
          => /\ transcriber_sessions' = transcriber_sessions
             /\ call_sockets' = call_sockets
             /\ transcripts' = transcripts
             /\ lastOp'.sent = <<Delivery(lastOp'.user, lastOp'.target,
                                          Status("Transcription started"))>>]_vars

\* C39 witness: a start_transcription has been read by a handler that already
\* had a transcriber and had buffered a final fragment.
C39_Witness ==
  /\ lastOp.op = "start_transcription"
  /\ lastOp.ret.message = "transcriber kept"
  /\ call_sockets[lastOp.target].transcript_buffer # <<>>
  /\ transcriber_sessions[lastOp.target] = 1

====
